---- MODULE Spec2Model ----
(***************************************************************************)
(* Model of cli/tools/registry/unfurl.rs: SpecifierUnfurler::unfurl and    *)
(* its helpers unfurl_specifier, try_unfurl_dynamic_dep, relative_url and  *)
(* to_range.                                                               *)
(*                                                                         *)
(* Text is a sequence of symbols.  A symbol stands for one byte of the     *)
(* source: the quote characters, "/", ".", ":" are single symbols and so   *)
(* is every path or package name ("lib", "foo.ts", ".." ...), which the    *)
(* code never looks inside.  Offsets and lengths count symbols.            *)
(*                                                                         *)
(* A value computed once in the code and used several times is handed to   *)
(* an operator of its own as a parameter, so most functions of the code    *)
(* are a chain of two or three operators here.                             *)
(***************************************************************************)
EXTENDS Integers, Sequences, FiniteSets, TLC

\* ------------------------------------------------------------------ bounds
\* Largest number of specifier occurrences (one per line) in a module.
MaxOcc == 2

\* Largest length of the text of a range handed to to_range on its own.
MaxRangeLen == 3

\* ----------------------------------------------------------------- strings
DQ == "\""
SQ == "'"
BT == "backtick"

None == [tag |-> "None"]
Some(v) == [tag |-> "Some", value |-> v]
Panic == [tag |-> "Panic"]
Ok(v) == [tag |-> "Ok", value |-> v]

\* str::starts_with
StartsWith(s, p) ==
  Len(s) >= Len(p) /\ SubSeq(s, 1, Len(p)) = p

\* str::ends_with
EndsWith(s, p) ==
  Len(s) >= Len(p) /\ SubSeq(s, Len(s) - Len(p) + 1, Len(s)) = p

RECURSIVE FindFrom(_, _, _)
\* the 0-based offset of the first occurrence at or after offset k
FindFrom(hay, needle, k) ==
  IF k + Len(needle) > Len(hay) THEN None
  ELSE IF SubSeq(hay, k + 1, k + Len(needle)) = needle THEN Some(k)
  ELSE FindFrom(hay, needle, k + 1)

\* str::find: the 0-based offset of the first occurrence, or None
Find(hay, needle) == FindFrom(hay, needle, 0)

\* the text of a half-open range [start, end) of 0-based offsets
Slice(text, start, end) == SubSeq(text, start + 1, end)

Front(s) == SubSeq(s, 1, Len(s) - 1)
Last(s) == s[Len(s)]

RECURSIVE SplitFrom(_, _, _)
\* the segments of s between the slashes, from the k-th symbol on, with
\* seg the segment being read
SplitFrom(s, k, seg) ==
  IF k > Len(s) THEN <<seg>>
  ELSE IF s[k] = "/" THEN <<seg>> \o SplitFrom(s, k + 1, <<>>)
  ELSE SplitFrom(s, k + 1, Append(seg, s[k]))

\* str::split on the slash
Split(s) == SplitFrom(s, 1, <<>>)

RECURSIVE Join(_)
\* the segments joined by "/"
Join(segs) ==
  IF segs = <<>> THEN <<>>
  ELSE IF Len(segs) = 1 THEN segs[1]
  ELSE segs[1] \o <<"/">> \o Join(Tail(segs))

\* -------------------------------------------------------------------- URLs
\* ModuleSpecifier (url::Url): a scheme, a host and a path.  The path of a
\* hierarchical URL is its list of segments ("/d/lib/" is <<d, lib, <<>>>>);
\* the path of an opaque URL (npm:, node:, jsr:) is the one segment after
\* the colon.
SpecialSchemes == {"file", "https"}
OpaqueSchemes == {"npm", "node", "jsr"}

Url(scheme, host, path) == [scheme |-> scheme, host |-> host, path |-> path]

\* Url::to_string
UrlString(u) ==
  IF u.scheme \in SpecialSchemes
    THEN <<u.scheme, ":", "/", "/">> \o u.host \o <<"/">> \o Join(u.path)
    ELSE <<u.scheme, ":">> \o Join(u.path)

\* the directories read so far, without the last one
Pop(out) == IF out = <<>> THEN out ELSE Front(out)

RECURSIVE RemoveDots(_, _)
\* dot-segment removal of the URL parser: "." is dropped, ".." drops the
\* segment before it, and either one in last place leaves a directory
RemoveDots(out, segs) ==
  IF segs = <<>> THEN out
  ELSE IF Head(segs) = <<".">>
    THEN RemoveDots(IF Len(segs) = 1 THEN Append(out, <<>>) ELSE out,
                    Tail(segs))
  ELSE IF Head(segs) = <<"..">>
    THEN RemoveDots(IF Len(segs) = 1 THEN Append(Pop(out), <<>>) ELSE Pop(out),
                    Tail(segs))
  ELSE RemoveDots(Append(out, Head(segs)), Tail(segs))

\* an absolute URL with an authority: segs are the host and the path
ParseAuthority(scheme, segs) ==
  IF scheme = "https" /\ Head(segs) = <<>> THEN None  \* EmptyHost
  ELSE Some(Url(scheme, Head(segs),
                IF Len(segs) = 1 THEN <<<<>>>>
                ELSE RemoveDots(<<>>, Tail(segs))))

\* an absolute URL: what follows the scheme and its colon
ParseAbsolute(scheme, rest) ==
  IF scheme \in OpaqueSchemes THEN Some(Url(scheme, <<>>, <<rest>>))
  ELSE IF ~StartsWith(rest, <<"/", "/">>) THEN None
  ELSE ParseAuthority(scheme, Split(SubSeq(rest, 3, Len(rest))))

\* a relative reference resolved against base
ParseRelative(input, base) ==
  IF base.scheme \notin SpecialSchemes THEN None
  ELSE IF input = <<>> THEN Some(base)
  ELSE IF input[1] = "/"
    THEN Some(Url(base.scheme, base.host, RemoveDots(<<>>, Split(Tail(input)))))
  ELSE Some(Url(base.scheme, base.host,
                RemoveDots(<<>>, Front(base.path) \o Split(input))))

\* Url::options().base_url(Some(base)).parse(input): Some(url) or None (Err)
ParseUrl(input, base) ==
  IF Len(input) >= 2 /\ input[2] = ":"
       /\ input[1] \in SpecialSchemes \cup OpaqueSchemes
    THEN ParseAbsolute(input[1], SubSeq(input, 3, Len(input)))
    ELSE ParseRelative(input, base)

RECURSIVE CommonPrefix(_, _)
\* the number of leading segments two directory lists share
CommonPrefix(a, b) ==
  IF a = <<>> \/ b = <<>> \/ Head(a) # Head(b) THEN 0
  ELSE 1 + CommonPrefix(Tail(a), Tail(b))

\* rel, with a slash after it unless it is empty
Slashed(rel) == IF rel # <<>> THEN rel \o <<"/">> ELSE rel

RECURSIVE PushDotDots(_, _)
\* one ".." for each remaining directory of the base, up to an empty one
PushDotDots(rel, segs) ==
  IF segs = <<>> \/ Head(segs) = <<>> THEN rel
  ELSE PushDotDots(Slashed(rel) \o <<"..">>, Tail(segs))

RECURSIVE PushSegments(_, _)
\* the remaining directories of the target
PushSegments(rel, segs) ==
  IF segs = <<>> THEN rel
  ELSE PushSegments(Slashed(rel) \o Head(segs), Tail(segs))

\* the file name of the target after its directories, unless both are
\* where the base is
PushFilename(rel, bfile, ufile) ==
  IF rel # <<>> \/ bfile # ufile
    THEN IF ufile = <<>> THEN rel \o <<"/">> ELSE Slashed(rel) \o ufile
    ELSE rel

\* the relative path given the directories after the k they share
RelativePath(bdirs, udirs, k, bfile, ufile) ==
  PushFilename(
    PushSegments(PushDotDots(<<>>, SubSeq(bdirs, k + 1, Len(bdirs))),
                 SubSeq(udirs, k + 1, Len(udirs))),
    bfile, ufile)

\* Url::make_relative: the path of url relative to base, or None when the
\* scheme or the host differ or base cannot be a base
MakeRelative(base, url) ==
  IF base.scheme \notin SpecialSchemes THEN None
  ELSE IF base.scheme # url.scheme \/ base.host # url.host THEN None
  ELSE Some(RelativePath(Front(base.path), Front(url.path),
                         CommonPrefix(Front(base.path), Front(url.path)),
                         Last(base.path), Last(url.path)))

\* ----------------------------------------------------------- configuration
VARIABLES
  url,                      \* the referrer: the module being unfurled
  mapped_resolver,          \* SpecifierUnfurler.mapped_resolver
  sloppy_imports_resolver,  \* SpecifierUnfurler.sloppy_imports_resolver
  bare_node_builtins,       \* SpecifierUnfurler.bare_node_builtins
  lines,                    \* the source: one occurrence per line
  parsed_source,            \* its text, line starts and module info
  pass,                     \* 1: the module as written, 2: unfurl's own output
  pc,                       \* the position of unfurl in its body
  idx,                      \* the index of the loop unfurl is in
  text_changes,             \* the edits collected so far
  diagnostics,              \* what diagnostic_reporter has been called with
  rewritten_text,           \* the result of unfurl, once it returned
  calls                     \* history: one record per occurrence handled

vars == <<url, mapped_resolver, sloppy_imports_resolver, bare_node_builtins,
          lines, parsed_source, pass, pc, idx, text_changes, diagnostics,
          rewritten_text, calls>>

Config == <<url, mapped_resolver, sloppy_imports_resolver, bare_node_builtins>>

FileUrl(host, path) == Url("file", host, path)

\* the module of the test: <cwd>/mod.ts, with <cwd> the directory /d
ModUrl == FileUrl(<<>>, <<<<"d">>, <<"mod.ts">>>>)

\* The mapped resolvers of the model.  A resolver is its table (import map
\* and package.json dependencies, already applied to whole specifiers) and
\* what a miss gives: Err with an import map, Ok(None) without one.
NoImportMap == [table |-> <<>>, miss |-> "None"]

TestImportMap ==
  [table |-> <<
     [from |-> <<"express">>, to |-> Url("npm", <<>>, <<<<"express@5">>>>)],
     [from |-> <<"chalk">>, to |-> Url("npm", <<>>, <<<<"chalk@5">>>>)],
     [from |-> <<"lib", "/">>,
      to |-> FileUrl(<<>>, <<<<"d">>, <<"lib">>, <<>>>>)],
     [from |-> <<"lib", "/", "foo.ts">>,
      to |-> FileUrl(<<>>, <<<<"d">>, <<"lib">>, <<"foo.ts">>>>)]
   >>,
   miss |-> "Err"]

\* an import map that shadows a builtin, maps one of its own targets again,
\* and points at a file on another host
OtherImportMap ==
  [table |-> <<
     [from |-> <<"url">>, to |-> Url("npm", <<>>, <<<<"url-shim">>>>)],
     [from |-> <<"express">>, to |-> Url("npm", <<>>, <<<<"express@5">>>>)],
     [from |-> <<"npm", ":", "express@5">>,
      to |-> Url("npm", <<>>, <<<<"express@6">>>>)],
     [from |-> <<"lib", "/">>,
      to |-> FileUrl(<<>>, <<<<"d">>, <<"lib">>, <<>>>>)],
     [from |-> <<"share">>,
      to |-> FileUrl(<<"srv">>, <<<<"x.ts">>>>)]
   >>,
   miss |-> "Err"]

MappedResolvers == {NoImportMap, TestImportMap, OtherImportMap}

\* The sloppy imports resolver of the model: it finds b.ts for ./b and
\* ./b.js, and baz/index.js for the directory ./baz.
SloppyTable ==
  <<[from |-> FileUrl(<<>>, <<<<"d">>, <<"b">>>>),
     to |-> FileUrl(<<>>, <<<<"d">>, <<"b.ts">>>>)],
    [from |-> FileUrl(<<>>, <<<<"d">>, <<"b.js">>>>),
     to |-> FileUrl(<<>>, <<<<"d">>, <<"b.ts">>>>)],
    [from |-> FileUrl(<<>>, <<<<"d">>, <<"baz">>>>),
     to |-> FileUrl(<<>>, <<<<"d">>, <<"baz">>, <<"index.js">>>>)]>>

SloppyResolvers == {None, Some(SloppyTable)}

\* deno_node::is_builtin_node_module
is_builtin_node_module(specifier) == specifier \in {<<"url">>, <<"fs">>}

RECURSIVE LookupFrom(_, _, _)
\* the first entry for key from the k-th on
LookupFrom(table, key, k) ==
  IF k > Len(table) THEN None
  ELSE IF table[k].from = key THEN Some(table[k].to)
  ELSE LookupFrom(table, key, k + 1)

Lookup(table, key) == LookupFrom(table, key, 1)

\* what the resolver answers given what its table holds
OrMiss(hit) == IF hit.tag = "Some" THEN hit ELSE [tag |-> mapped_resolver.miss]

\* MappedSpecifierResolver::resolve(..): Err, Ok(None) or Ok(Some(url))
MappedResolve(specifier, referrer) ==
  OrMiss(Lookup(mapped_resolver.table, specifier))

\* what the resolver finds, or the reference as it is
OrSame(hit, resolved) == IF hit.tag = "Some" THEN hit.value ELSE resolved

\* SloppyImportsResolver::resolve(..).as_specifier()
SloppyResolve(table, resolved) == OrSame(Lookup(table, resolved), resolved)

\* ------------------------------------------------------- unfurl_specifier
\* FirstResolved with the builtin check put before the mapped resolver
FirstResolvedBuiltinFirst(mapped, referrer, specifier) ==
  IF bare_node_builtins /\ is_builtin_node_module(specifier)
    THEN ParseUrl(<<"node", ":">> \o specifier, referrer)
  ELSE IF mapped.tag = "Some" THEN mapped
  ELSE ParseUrl(specifier, referrer)

\* lines 114-129: the mapped resolver's reference, else node:<specifier>
\* for a builtin when bare builtins are on, else the specifier parsed
\* against the referrer; None when that fails (the ? of line 128)
FirstResolved(mapped, referrer, specifier) ==
  IF mapped.tag = "Some" THEN mapped
  ELSE IF bare_node_builtins /\ is_builtin_node_module(specifier)
    THEN ParseUrl(<<"node", ":">> \o specifier, referrer)
  ELSE ParseUrl(specifier, referrer)

\* lines 151-159: through the sloppy imports resolver, when there is one
ThroughSloppy(first) ==
  IF first.tag = "None" THEN None
  ELSE IF sloppy_imports_resolver.tag = "Some"
    THEN Some(SloppyResolve(sloppy_imports_resolver.value, first.value))
  ELSE first

\* lines 114-159: the resolved reference of a specifier, or None
ResolveChain(referrer, specifier) ==
  ThroughSloppy(FirstResolved(MappedResolve(specifier, referrer),
                              referrer, specifier))

\* line 332: "./" before the relative path; the unwrap panics on None
DotSlash(rel) ==
  IF rel.tag = "None" THEN Panic ELSE Some(<<".", "/">> \o rel.value)

\* relative_url: the literal for a resolved reference
relative_url(resolved, referrer) ==
  IF resolved.scheme = "file"
    THEN DotSlash(MakeRelative(referrer, resolved))
    ELSE Some(UrlString(resolved))

\* line 160, when the chain gave a reference
Relativized(resolved, referrer) ==
  IF resolved.tag = "None" THEN None
  ELSE relative_url(resolved.value, referrer)

\* lines 161-165: nothing to unfurl when the literal is the specifier
UnlessSame(relative_resolved, specifier) ==
  IF relative_resolved.tag = "Some" /\ relative_resolved.value = specifier
    THEN None
    ELSE relative_resolved

\* unfurl_specifier: Some(literal), None (nothing to unfurl) or a panic
unfurl_specifier(referrer, specifier) ==
  UnlessSame(Relativized(ResolveChain(referrer, specifier), referrer),
             specifier)

\* ------------------------------------------------------------ the source
\* A line of the module holds one specifier occurrence: its kind, its text
\* (raw), the columns [lo, hi) the analyzer reports for it, and what the
\* analyzer read there: the specifier (cooked: escapes resolved), and for a
\* dynamic import the shape of the argument and the parts of a template.
Line(kind, raw, lo, hi, specifier, arg, parts) ==
  [kind |-> kind, raw |-> raw, lo |-> lo, hi |-> hi,
   specifier |-> specifier, arg |-> arg, parts |-> parts]

StringPart(value) == [expr |-> FALSE, value |-> value]
ExprPart == [expr |-> TRUE, value |-> <<>>]

\* import <q>spec<q>
StaticLine(q, spec) ==
  Line("static", <<"import", q>> \o spec \o <<q>>, 1, Len(spec) + 3,
       spec, "none", <<>>)

\* import(<open>raw<close>): a string argument, read as spec
DynamicString(open, raw, spec) ==
  Line("dynamic", <<"import(", open>> \o raw \o <<open, ")">>, 1,
       Len(raw) + 3, spec, "String", <<>>)

\* import(`raw`): a template argument with the given parts
DynamicTemplate(raw, parts) ==
  Line("dynamic", <<"import(", BT>> \o raw \o <<BT, ")">>, 1, Len(raw) + 3,
       <<>>, "Template", parts)

\* import(raw): any other expression
DynamicExpr(raw) ==
  Line("dynamic", <<"import(">> \o raw \o <<")">>, 1, Len(raw) + 1,
       <<>>, "Expr", <<>>)

\* /// <reference path="spec" />
TsReference(spec) ==
  Line("ts_ref", <<"///ref", DQ>> \o spec \o <<DQ, "/>">>, 1, Len(spec) + 3,
       spec, "none", <<>>)

\* /** @type {import("spec")} */
JsdocImport(spec) ==
  Line("jsdoc", <<"/**import(", DQ>> \o spec \o <<DQ, ")*/">>, 1,
       Len(spec) + 3, spec, "none", <<>>)

\* /** @jsxImportSource spec */
JsxImportSource(spec) ==
  Line("jsx", <<"/**@jsxImportSource">> \o spec \o <<"*/">>, 1, Len(spec) + 1,
       spec, "none", <<>>)

LibSlash == <<"lib", "/">>
LibFoo == <<"lib", "/", "foo.ts">>
Interp == <<"${", "expr", "}">>

\* The occurrences a module of the model is made of.
Catalog ==
  { StaticLine(DQ, <<"express">>),
    StaticLine(SQ, LibFoo),
    StaticLine(DQ, <<"url">>),
    StaticLine(DQ, <<".", "/", "mod.ts">>),
    StaticLine(DQ, <<"..", "/", "x.ts">>),
    StaticLine(DQ, <<".", "/", "b">>),
    StaticLine(DQ, <<"https", ":", "/", "/">>),
    StaticLine(DQ, <<"share">>),
    StaticLine(DQ, LibSlash),
    DynamicString(DQ, LibFoo, LibFoo),
    DynamicString(BT, LibFoo, LibFoo),
    DynamicString(DQ, <<"lib", "\\", "/", "foo.ts">>, LibFoo),
    DynamicTemplate(LibSlash \o Interp, <<StringPart(LibSlash), ExprPart>>),
    DynamicTemplate(<<".", "/">> \o LibSlash \o Interp,
                    <<StringPart(<<".", "/">> \o LibSlash), ExprPart>>),
    DynamicTemplate(<<"lib">> \o Interp, <<StringPart(<<"lib">>), ExprPart>>),
    DynamicTemplate(Interp, <<ExprPart>>),
    DynamicTemplate(<<"lib", "\\", "/">> \o Interp,
                    <<StringPart(LibSlash), ExprPart>>),
    DynamicTemplate(LibSlash \o Interp \o <<"x">>,
                    <<StringPart(LibSlash), ExprPart, StringPart(<<"x">>)>>),
    DynamicTemplate(Interp \o LibSlash, <<ExprPart, StringPart(LibSlash)>>),
    DynamicTemplate(<<"https", ":", "/", "/">> \o Interp,
                    <<StringPart(<<"https", ":", "/", "/">>), ExprPart>>),
    DynamicTemplate(<<>>, <<>>),
    DynamicExpr(<<DQ>> \o LibSlash \o <<DQ, "+", "x">>),
    TsReference(<<".", "/", "b">>),
    JsdocImport(<<"express">>),
    JsxImportSource(<<"express">>) }

\* a module has at most one JSX import source pragma
Modules ==
  { m \in UNION {[1..n -> Catalog] : n \in 1..MaxOcc} :
      Cardinality({k \in DOMAIN m : m[k].kind = "jsx"}) <= 1 }

RECURSIVE TextOf(_)
\* the text of the lines, each ended by a newline
TextOf(ls) ==
  IF ls = <<>> THEN <<>> ELSE Head(ls).raw \o <<"\n">> \o TextOf(Tail(ls))

\* deno_graph::PositionRange of the occurrence on the k-th line
PositionRange(ls, k) ==
  [start |-> [line |-> k - 1, character |-> ls[k].lo],
   end |-> [line |-> k - 1, character |-> ls[k].hi]]

\* what the analyzer reports for the k-th line
Descriptor(ls, k) ==
  [line |-> k, kind |-> ls[k].kind, specifier |-> ls[k].specifier,
   arg |-> ls[k].arg, parts |-> ls[k].parts, range |-> PositionRange(ls, k)]

OfKind(ls, kinds) ==
  LET all == [k \in 1..Len(ls) |-> Descriptor(ls, k)]
  IN  SelectSeq(all, LAMBDA d : d.kind \in kinds)

\* deno_ast::parse_module and DefaultModuleAnalyzer::module_info: the text,
\* where its lines start, the dependencies in source order, and the pragmas
\* and jsdoc imports apart
ParsedSource(ls) ==
  [text |-> TextOf(ls),
   line_starts |-> [k \in 1..(Len(ls) + 1) |-> Len(TextOf(SubSeq(ls, 1, k - 1)))],
   dependencies |-> OfKind(ls, {"static", "dynamic"}),
   ts_references |-> OfKind(ls, {"ts_ref"}),
   jsdoc_imports |-> OfKind(ls, {"jsdoc"}),
   jsx_import_source |->
     IF OfKind(ls, {"jsx"}) = <<>> THEN None ELSE Some(OfKind(ls, {"jsx"})[1])]

\* SourceTextInfo::text_str
text_str == parsed_source.text

\* SourceTextInfo::line_start of a 0-based line
line_start(line) == parsed_source.line_starts[line + 1]

dependencies == parsed_source.dependencies
ts_references == parsed_source.ts_references
jsdoc_imports == parsed_source.jsdoc_imports
jsx_import_source == parsed_source.jsx_import_source

\* ---------------------------------------------------------------- to_range
IsQuote(c) == c = DQ \/ c = SQ

\* PositionRange::as_source_range(..).as_byte_range(..), lines 342-344
ByteRange(range) ==
  [start |-> line_start(range.start.line) + range.start.character,
   end |-> line_start(range.end.line) + range.end.character]

\* lines 346-352: the range without a quote at its start and at its end
TrimQuotes(range, text) ==
  [start |-> IF text # <<>> /\ IsQuote(text[1])
               THEN range.start + 1 ELSE range.start,
   end |-> IF text # <<>> /\ IsQuote(text[Len(text)])
             THEN range.end - 1 ELSE range.end]

\* line 345: the text of the range
TrimRange(range) ==
  TrimQuotes(range, Slice(text_str, range.start, range.end))

\* to_range: the byte range of a position range, without its quotes
to_range(range) == TrimRange(ByteRange(range))

TextChange(range, new_text) == [range |-> range, new_text |-> new_text]

\* lines 249-254: the edit for a specifier that unfurls to something else
PushUnfurled(unfurled, range, changes) ==
  IF unfurled.tag = "Panic" THEN Panic
  ELSE IF unfurled.tag = "Some"
    THEN Ok(Append(changes, TextChange(to_range(range), unfurled.value)))
  ELSE Ok(changes)

\* the closure analyze_specifier of unfurl: the edits after it, or a panic
analyze_specifier(specifier, range, changes) ==
  PushUnfurled(unfurl_specifier(url, specifier), range, changes)

\* ------------------------------------------------- try_unfurl_dynamic_dep
Verdict(success, changes) ==
  [tag |-> "Ok", success |-> success, value |-> changes]

SpanAt(start, specifier) == [start |-> start, end |-> start + Len(specifier)]

\* lines 187-194: the edit at the place found, if the specifier unfurls
StringUnfurled(unfurled, start, specifier, changes) ==
  IF unfurled.tag = "Panic" THEN Panic
  ELSE IF unfurled.tag = "Some"
    THEN Verdict(TRUE, Append(changes, TextChange(SpanAt(start, specifier),
                                                  unfurled.value)))
  ELSE Verdict(TRUE, changes)

\* lines 183-186: a string that is not found is analyzable all the same
StringFound(maybe_relative_index, range, specifier, changes) ==
  IF maybe_relative_index.tag = "None" THEN Verdict(TRUE, changes)
  ELSE StringUnfurled(unfurl_specifier(url, specifier),
                      range.start + maybe_relative_index.value,
                      specifier, changes)

\* StringInRange searching to the end of the text, as the Template arm does
StringInRest(range, specifier, changes) ==
  IF range.start > range.end THEN Panic
  ELSE StringFound(Find(Slice(text_str, range.start, Len(text_str)),
                        specifier),
                   range, specifier, changes)

\* lines 180-182: the specifier is searched between the ends of the range
StringInRange(range, specifier, changes) ==
  IF range.start > range.end THEN Panic  \* slice index starts after its end
  ELSE StringFound(Find(Slice(text_str, range.start, range.end), specifier),
                   range, specifier, changes)

\* the String arm, lines 178-195
DynamicStringArm(dep, changes) ==
  StringInRange(to_range(dep.range), dep.specifier, changes)

\* TemplateFound taking a prefix that is not found as the String arm does
TemplateFoundOrSkipped(maybe_relative_index, range, specifier, new_text, changes) ==
  IF maybe_relative_index.tag = "None" THEN Verdict(TRUE, changes)
  ELSE Verdict(TRUE,
         Append(changes,
           TextChange(SpanAt(range.start + maybe_relative_index.value,
                             specifier),
                      new_text)))

\* lines 214-222: the edit at the place found, or not analyzable
TemplateFound(maybe_relative_index, range, specifier, new_text, changes) ==
  IF maybe_relative_index.tag = "None" THEN Verdict(FALSE, changes)
  ELSE Verdict(TRUE,
         Append(changes,
           TextChange(SpanAt(range.start + maybe_relative_index.value,
                             specifier),
                      new_text)))

\* lines 211-213: the prefix is searched from the start of the range on
TemplateInRange(range, specifier, new_text, changes) ==
  TemplateFound(Find(Slice(text_str, range.start, Len(text_str)), specifier),
                range, specifier, new_text, changes)

\* lines 208-210: nothing to unfurl is analyzable
TemplateUnfurled(unfurled, dep, specifier, changes) ==
  IF unfurled.tag = "Panic" THEN Panic
  ELSE IF unfurled.tag = "None" THEN Verdict(TRUE, changes)
  ELSE TemplateInRange(to_range(dep.range), specifier, unfurled.value,
                       changes)

\* lines 197-207: a template that starts with a string
TemplatePrefix(dep, specifier, changes) ==
  IF StartsWith(specifier, <<".", "/">>) \/ StartsWith(specifier, <<"..", "/">>)
    THEN Verdict(TRUE, changes)
  ELSE IF ~EndsWith(specifier, <<"/">>) THEN Verdict(FALSE, changes)
  ELSE TemplateUnfurled(unfurl_specifier(url, specifier), dep, specifier,
                        changes)

\* the Template arm, lines 196-230: only the first part is looked at
DynamicTemplateArm(dep, changes) ==
  IF dep.parts = <<>> THEN Verdict(TRUE, changes)
  ELSE IF dep.parts[1].expr THEN Verdict(FALSE, changes)
  ELSE TemplatePrefix(dep, dep.parts[1].value, changes)

\* try_unfurl_dynamic_dep: whether the import was analyzable, and the edits
\* after the call
try_unfurl_dynamic_dep(dep, changes) ==
  IF dep.arg = "String" THEN DynamicStringArm(dep, changes)
  ELSE IF dep.arg = "Template" THEN DynamicTemplateArm(dep, changes)
  ELSE Verdict(FALSE, changes)

\* ------------------------------------------------------ apply_text_changes
\* whether change c goes before change h when sorted by start, then by end
Before(c, h) ==
  \/ c.range.start < h.range.start
  \/ c.range.start = h.range.start /\ c.range.end < h.range.end

RECURSIVE InsertChange(_, _)
\* the place of one change in a sorted list
InsertChange(c, sorted) ==
  IF sorted = <<>> THEN <<c>>
  ELSE IF Before(c, Head(sorted)) THEN <<c>> \o sorted
  ELSE <<Head(sorted)>> \o InsertChange(c, Tail(sorted))

RECURSIVE SortChanges(_)
SortChanges(changes) ==
  IF changes = <<>> THEN <<>>
  ELSE InsertChange(Last(changes), SortChanges(Front(changes)))

RECURSIVE Patch(_, _, _, _)
\* one pass over the sorted changes; a change that ends before it starts
\* or starts before the last one ended is a panic
Patch(text, sorted, last_index, out) ==
  IF sorted = <<>> THEN Ok(out \o Slice(text, last_index, Len(text)))
  ELSE IF Head(sorted).range.start > Head(sorted).range.end
            \/ Head(sorted).range.start < last_index
    THEN Panic
  ELSE Patch(text, Tail(sorted), Head(sorted).range.end,
             out \o Slice(text, last_index, Head(sorted).range.start)
                 \o Head(sorted).new_text)

\* deno_ast::apply_text_changes as unfurl calls it
apply_text_changes(text, changes) ==
  Patch(text, SortChanges(changes), 0, <<>>)

\* --------------------------------------------------------------- unfurl
Sections ==
  <<"dependencies", "ts_references", "jsdoc_imports", "jsx_import_source">>

SectionItemsOf(src, name) ==
  IF name = "dependencies" THEN src.dependencies
  ELSE IF name = "ts_references" THEN src.ts_references
  ELSE IF name = "jsdoc_imports" THEN src.jsdoc_imports
  ELSE IF src.jsx_import_source.tag = "Some"
    THEN <<src.jsx_import_source.value>>
  ELSE <<>>

RECURSIVE FirstSectionOf(_, _)
\* the first loop from the k-th on that has something to iterate over
FirstSectionOf(src, k) ==
  IF k > Len(Sections) THEN "apply"
  ELSE IF SectionItemsOf(src, Sections[k]) # <<>> THEN Sections[k]
  ELSE FirstSectionOf(src, k + 1)

SectionIndex(name) == CHOOSE k \in 1..Len(Sections) : Sections[k] = name

\* where unfurl is after the i-th item of a loop: at the next item, or at
\* the first item of the next loop that has one
After(name, i) ==
  IF i < Len(SectionItemsOf(parsed_source, name)) THEN <<name, i + 1>>
  ELSE <<FirstSectionOf(parsed_source, SectionIndex(name) + 1), 1>>

\* the history record of one occurrence handled
Call(dep, specifier, success, before, after) ==
  [dep |-> dep, specifier |-> specifier,
   resolved |-> ResolveChain(url, specifier),
   success |-> success, before |-> before, after |-> after]

\* the diagnostic of lines 274-288, with its SourceRange
UnanalyzableDynamicImport(dep) ==
  [code |-> "unanalyzable-dynamic-import", specifier |-> url,
   range |-> [start |-> line_start(dep.range.start.line)
                          + dep.range.start.character,
              end |-> line_start(dep.range.end.line)
                        + dep.range.end.character]]

\* Reported with the test of line 273 turned around
ReportedOnSuccess(success, dep, sink) ==
  IF success THEN Append(sink, UnanalyzableDynamicImport(dep)) ELSE sink

\* line 273: a dynamic dependency is reported when it was not analyzable
Reported(success, dep, sink) ==
  IF ~success THEN Append(sink, UnanalyzableDynamicImport(dep)) ELSE sink

\* unfurl goes on after an item, or has panicked in it
Collected(r, dep, specifier, next) ==
  IF r.tag = "Panic"
    THEN /\ pc' = "panicked"
         /\ UNCHANGED <<idx, text_changes, calls>>
    ELSE /\ pc' = next[1]
         /\ idx' = next[2]
         /\ text_changes' = r.value
         /\ calls' = Append(calls, Call(dep, specifier, TRUE,
                                        text_changes, r.value))

\* one call of analyze_specifier on an item of the current loop
AnalyzeItem(dep) ==
  Collected(analyze_specifier(dep.specifier, dep.range, text_changes),
            dep, dep.specifier, After(pc, idx))

\* lines 258-264
UnfurlStatic ==
  /\ pc = "dependencies"
  /\ dependencies[idx].kind = "static"
  /\ AnalyzeItem(dependencies[idx])
  /\ UNCHANGED <<Config, lines, parsed_source, pass, diagnostics,
                 rewritten_text>>

\* the specifier a dynamic dependency is classified on
DynamicSpecifier(dep) ==
  IF dep.arg = "String" THEN dep.specifier
  ELSE IF dep.arg = "Template" /\ dep.parts # <<>> /\ ~dep.parts[1].expr
    THEN dep.parts[1].value
  ELSE <<>>

\* lines 266-289: the edits and the diagnostics after a dynamic dependency
Classified(r, dep, next) ==
  IF r.tag = "Panic"
    THEN /\ pc' = "panicked"
         /\ UNCHANGED <<idx, text_changes, calls, diagnostics>>
    ELSE /\ pc' = next[1]
         /\ idx' = next[2]
         /\ text_changes' = r.value
         /\ diagnostics' = Reported(r.success, dep, diagnostics)
         /\ calls' = Append(calls, Call(dep, DynamicSpecifier(dep), r.success,
                                        text_changes, r.value))

\* lines 265-290
UnfurlDynamic ==
  /\ pc = "dependencies"
  /\ dependencies[idx].kind = "dynamic"
  /\ Classified(try_unfurl_dynamic_dep(dependencies[idx], text_changes),
                dependencies[idx], After(pc, idx))
  /\ UNCHANGED <<Config, lines, parsed_source, pass, rewritten_text>>

\* lines 293-303
UnfurlTsReference ==
  /\ pc = "ts_references"
  /\ AnalyzeItem(ts_references[idx])
  /\ UNCHANGED <<Config, lines, parsed_source, pass, diagnostics,
                 rewritten_text>>

\* lines 304-310
UnfurlJsdocImport ==
  /\ pc = "jsdoc_imports"
  /\ AnalyzeItem(jsdoc_imports[idx])
  /\ UNCHANGED <<Config, lines, parsed_source, pass, diagnostics,
                 rewritten_text>>

\* lines 311-317
UnfurlJsxImportSource ==
  /\ pc = "jsx_import_source"
  /\ AnalyzeItem(jsx_import_source.value)
  /\ UNCHANGED <<Config, lines, parsed_source, pass, diagnostics,
                 rewritten_text>>

\* unfurl returns the patched text, or the patcher has panicked
Returned(r) ==
  IF r.tag = "Panic"
    THEN /\ pc' = "panicked"
         /\ UNCHANGED rewritten_text
    ELSE /\ pc' = "done"
         /\ rewritten_text' = Some(r.value)

\* lines 319-323
ApplyTextChanges ==
  /\ pc = "apply"
  /\ Returned(apply_text_changes(text_str, text_changes))
  /\ UNCHANGED <<Config, lines, parsed_source, pass, idx, text_changes,
                 diagnostics, calls>>

\* ------------------------------------------------- unfurl on its own output
\* the edits that start on the k-th line
EditsOnLine(k) ==
  SelectSeq(text_changes,
            LAMBDA c : /\ line_start(k - 1) <= c.range.start
                       /\ c.range.start < line_start(k))

\* The analyzer can be followed through an edit that replaced, inside the
\* reported range [lo, hi) of an occurrence, the very text of its specifier
\* (or of the leading part of its template), or that fell inside an
\* argument that is an expression anyway.  a and b are the columns of the
\* edit.
Followed(l, a, b) ==
  /\ l.lo <= a /\ a <= b /\ b <= l.hi
  /\ \/ l.arg = "Expr"
     \/ l.arg \in {"none", "String"} /\ Slice(l.raw, a, b) = l.specifier
     \/ /\ l.arg = "Template"
        /\ l.parts # <<>>
        /\ ~l.parts[1].expr
        /\ a = l.lo + 1
        /\ Slice(l.raw, a, b) = l.parts[1].value

Reparsable(k, on) ==
  \/ on = <<>>
  \/ /\ Len(on) = 1
     /\ Followed(lines[k], on[1].range.start - line_start(k - 1),
                 on[1].range.end - line_start(k - 1))

\* the line with the text in columns [a, b) replaced, as the analyzer reads
\* it then
Rewritten(l, a, b, new) ==
  [l EXCEPT
     !.raw = Slice(l.raw, 0, a) \o new \o Slice(l.raw, b, Len(l.raw)),
     !.hi = l.hi + Len(new) - (b - a),
     !.specifier = IF l.arg \in {"none", "String"} THEN new ELSE l.specifier,
     !.parts = IF l.arg = "Template"
                 THEN [l.parts EXCEPT ![1] = [expr |-> FALSE, value |-> new]]
                 ELSE l.parts]

\* the k-th line of the output
Reparsed(k, on) ==
  IF on = <<>> THEN lines[k]
  ELSE Rewritten(lines[k], on[1].range.start - line_start(k - 1),
                 on[1].range.end - line_start(k - 1), on[1].new_text)

\* the caller runs unfurl again, with the same resolvers, on the text the
\* first run returned
UnfurlAgain ==
  /\ pc = "done"
  /\ pass = 1
  /\ \A k \in 1..Len(lines) : Reparsable(k, EditsOnLine(k))
  /\ lines' = [k \in 1..Len(lines) |-> Reparsed(k, EditsOnLine(k))]
  /\ parsed_source' = ParsedSource(lines')
  /\ pass' = 2
  /\ pc' = FirstSectionOf(parsed_source, 1)
  /\ idx' = 1
  /\ text_changes' = <<>>
  /\ diagnostics' = <<>>
  /\ calls' = <<>>
  /\ rewritten_text' = None
  /\ UNCHANGED Config

\* ------------------------------------------------------- the specification
Init ==
  /\ url = ModUrl
  /\ mapped_resolver \in MappedResolvers
  /\ sloppy_imports_resolver \in SloppyResolvers
  /\ bare_node_builtins \in BOOLEAN
  /\ lines \in Modules
  /\ parsed_source = ParsedSource(lines)
  /\ pass = 1
  /\ pc = FirstSectionOf(parsed_source, 1)
  /\ idx = 1
  /\ text_changes = <<>>
  /\ diagnostics = <<>>
  /\ rewritten_text = None
  /\ calls = <<>>

Next ==
  \/ UnfurlStatic
  \/ UnfurlDynamic
  \/ UnfurlTsReference
  \/ UnfurlJsdocImport
  \/ UnfurlJsxImportSource
  \/ ApplyTextChanges
  \/ UnfurlAgain

Spec == Init /\ [][Next]_vars

\* ------------------------------------------------------ to_range on its own
RangeSymbols == {DQ, SQ, "a"}

RangeTexts == UNION {[1..n -> RangeSymbols] : n \in 0..MaxRangeLen}

\* a module whose second line is any text, with any range of it reported
RangeInit ==
  /\ url = ModUrl
  /\ mapped_resolver = NoImportMap
  /\ sloppy_imports_resolver = None
  /\ bare_node_builtins = FALSE
  /\ \E raw \in RangeTexts : \E lo \in 0..Len(raw) : \E hi \in lo..Len(raw) :
       lines = <<Line("static", <<"import">>, 0, 1, <<>>, "none", <<>>),
                 Line("static", raw, lo, hi, <<>>, "none", <<>>)>>
  /\ parsed_source = ParsedSource(lines)
  /\ pass = 1
  /\ pc = "to_range"
  /\ idx = 2
  /\ text_changes = <<>>
  /\ diagnostics = <<>>
  /\ rewritten_text = None
  /\ calls = <<>>

\* one call of to_range on the reported range
ToRange ==
  /\ pc = "to_range"
  /\ pc' = "done"
  /\ calls' = <<[dep |-> Descriptor(lines, idx),
                 result |-> to_range(PositionRange(lines, idx))]>>
  /\ UNCHANGED <<Config, lines, parsed_source, pass, idx, text_changes,
                 diagnostics, rewritten_text>>

RangeNext == ToRange

RangeSpec == RangeInit /\ [][RangeNext]_vars

\* ------------------------------------------------------------ properties
\* the call collected an edit
Pushed(c) == Len(c.after) = Len(c.before) + 1

\* the call left the edits as they were
Untouched(c) == c.after = c.before

\* the edit the call collected
EditOf(c) == c.after[Len(c.after)]

\* the bytes the analyzer reported for the occurrence of the call
OwnRange(c) == ByteRange(c.dep.range)

Inside(r, o) == o.start <= r.start /\ r.end <= o.end

Overlap(a, b) == a.start < b.end /\ b.start < a.end

\* the calls that handled a dynamic import
DynamicCalls == {k \in 1..Len(calls) : calls[k].dep.kind = "dynamic"}

\* the calls that handled anything else: one unfurl_specifier each
StaticCalls == {k \in 1..Len(calls) : calls[k].dep.kind # "dynamic"}

\* C1: unfurl always completes and returns text: no step of it panics.
C1_NeverPanics == pc # "panicked"

RECURSIVE UnanalyzableRanges(_)
\* the reported ranges of the dynamic imports found not analyzable, in the
\* order of the calls
UnanalyzableRanges(cs) ==
  IF cs = <<>> THEN <<>>
  ELSE (IF Head(cs).dep.kind = "dynamic" /\ ~Head(cs).success
          THEN <<OwnRange(Head(cs))>> ELSE <<>>)
       \o UnanalyzableRanges(Tail(cs))

\* C2: the diagnostics pushed to the sink are, in order, one for each
\* dynamic dependency classified not analyzable and none for anything else;
\* when the loops are over every occurrence has been handled, the
\* dependencies first and in their order.
C2_DiagnosticsFollowVerdicts ==
  /\ pc # "panicked" =>
       /\ [k \in 1..Len(diagnostics) |-> diagnostics[k].range]
            = UnanalyzableRanges(calls)
       /\ \A k \in 1..Len(diagnostics) :
            /\ diagnostics[k].code = "unanalyzable-dynamic-import"
            /\ diagnostics[k].specifier = url
  /\ pc \in {"apply", "done"} =>
       /\ Len(calls) = Len(lines)
       /\ \A k \in 1..Len(dependencies) : calls[k].dep = dependencies[k]

\* C2 happens: a module is through, with an analyzable dynamic import that
\* was edited and, after it, one that was reported.
C2_Witness ==
  /\ pc = "done"
  /\ Len(calls) = 2
  /\ calls[1].dep.kind = "dynamic" /\ calls[1].success /\ Pushed(calls[1])
  /\ calls[2].dep.kind = "dynamic" /\ ~calls[2].success
  /\ Len(diagnostics) = 1

SortedByStart(changes) ==
  \A k \in 1..(Len(changes) - 1) :
    changes[k].range.start <= changes[k + 1].range.start

NonOverlapping(changes) ==
  \A j, k \in 1..Len(changes) :
    j < k => ~Overlap(changes[j].range, changes[k].range)

\* C3 as claimed: at the handoff to the patcher the edits are sorted by
\* start offset and pairwise non-overlapping.
C3_SortedAtHandoff ==
  pc = "apply" => SortedByStart(text_changes) /\ NonOverlapping(text_changes)

\* the loop of unfurl that handles an occurrence of this kind
SectionOf(kind) ==
  IF kind \in {"static", "dynamic"} THEN "dependencies" ELSE kind

\* the calls whose edit does not come from a template
PlainEdits ==
  {k \in 1..Len(calls) : Pushed(calls[k]) /\ calls[k].dep.arg # "Template"}

\* C3 as amended: at the handoff the list holds the edits in the order
\* they were collected; every edit that does not come from a template lies
\* inside the range of its own occurrence, so these edits do not overlap
\* pairwise; and two of them collected in the same loop are in start order.
C3_CollectedInOwnRanges ==
  pc = "apply" =>
    /\ calls # <<>> => calls[Len(calls)].after = text_changes
    /\ \A k \in 1..(Len(calls) - 1) : calls[k + 1].before = calls[k].after
    /\ \A k \in 1..Len(calls) : Pushed(calls[k]) \/ Untouched(calls[k])
    /\ \A k \in PlainEdits : Inside(EditOf(calls[k]).range, OwnRange(calls[k]))
    /\ \A j, k \in PlainEdits :
         j < k =>
           /\ ~Overlap(EditOf(calls[j]).range, EditOf(calls[k]).range)
           /\ SectionOf(calls[j].dep.kind) = SectionOf(calls[k].dep.kind)
                => EditOf(calls[j]).range.end <= EditOf(calls[k]).range.start

\* C3 happens: two edits are handed over, the later one in the source
\* first.
C3_Witness ==
  /\ pc = "apply"
  /\ Len(text_changes) = 2
  /\ PlainEdits = {1, 2}
  /\ text_changes[1].range.start > text_changes[2].range.start

\* C4: unfurl on the text unfurl returned collects no edit and returns
\* that text unchanged.
C4_Idempotent ==
  pass = 2 =>
    /\ pc # "panicked"
    /\ pc \in {"apply", "done"} => text_changes = <<>>
    /\ pc = "done" => rewritten_text.value = text_str

\* the reference after the secondary resolver, when one is configured
Secondary(u) ==
  IF sloppy_imports_resolver.tag = "Some"
    THEN SloppyResolve(sloppy_imports_resolver.value, u)
    ELSE u

\* C5: the chain takes the mapped resolver's reference when there is one,
\* builtin or not; else node:<specifier> exactly when bare builtins are on
\* and the specifier is a builtin; else the specifier parsed against the
\* referrer, and nothing (and no edit) when that fails; and what it took
\* goes through the secondary resolver when one is configured.  An edit
\* for a reference that is not a file is its string.
C5_FirstSuccessWins ==
  \A k \in StaticCalls :
    LET c == calls[k]
        mapped == MappedResolve(c.specifier, url)
        builtin == bare_node_builtins /\ is_builtin_node_module(c.specifier)
        parsed == ParseUrl(c.specifier, url)
    IN  /\ mapped.tag = "Some" => c.resolved = Some(Secondary(mapped.value))
        /\ mapped.tag # "Some" /\ builtin =>
             c.resolved = Some(Secondary(Url("node", <<>>, <<c.specifier>>)))
        /\ mapped.tag # "Some" /\ ~builtin /\ parsed.tag = "Some" =>
             c.resolved = Some(Secondary(parsed.value))
        /\ mapped.tag # "Some" /\ ~builtin /\ parsed.tag = "None" =>
             c.resolved = None /\ Untouched(c)
        /\ c.resolved.tag = "Some" /\ c.resolved.value.scheme # "file" =>
             IF UrlString(c.resolved.value) = c.specifier THEN Untouched(c)
             ELSE Pushed(c)
                    /\ EditOf(c).new_text = UrlString(c.resolved.value)

\* C5 happens: a builtin name that the mapped resolver maps, with bare
\* builtins on, has been rewritten.
C5_Witness ==
  \E k \in StaticCalls :
    /\ bare_node_builtins
    /\ is_builtin_node_module(calls[k].specifier)
    /\ MappedResolve(calls[k].specifier, url).tag = "Some"
    /\ Pushed(calls[k])

\* the literal the claim gives a file reference: the relative path, with
\* "./" before it only if it does not start with "./" or "../"
ClaimedLiteral(rel) ==
  IF StartsWith(rel, <<".", "/">>) \/ StartsWith(rel, <<"..", "/">>)
    THEN rel
    ELSE <<".", "/">> \o rel

\* C6: a reference with the file scheme is written as its path relative to
\* the referrer, with "./" before it only when the path does not start
\* with "./" or "../".
C6_DotSlashOnlyIfNeeded ==
  \A k \in StaticCalls :
    LET c == calls[k]
    IN  c.resolved.tag = "Some" /\ c.resolved.value.scheme = "file"
        /\ MakeRelative(url, c.resolved.value).tag = "Some" =>
          LET literal == ClaimedLiteral(MakeRelative(url, c.resolved.value).value)
          IN  IF literal = c.specifier THEN Untouched(c)
              ELSE Pushed(c) /\ EditOf(c).new_text = literal

\* the calls that handled a dynamic import whose argument is a template
\* that starts with a literal part: a prefix
PrefixCalls ==
  {k \in DynamicCalls :
     /\ calls[k].dep.arg = "Template"
     /\ calls[k].dep.parts # <<>>
     /\ ~calls[k].dep.parts[1].expr}

\* the calls whose prefix is bare and ends with a slash, so that it is
\* resolved, and resolves to something else
RewrittenPrefixCalls ==
  {k \in PrefixCalls :
     /\ ~StartsWith(calls[k].specifier, <<".", "/">>)
     /\ ~StartsWith(calls[k].specifier, <<"..", "/">>)
     /\ EndsWith(calls[k].specifier, <<"/">>)
     /\ unfurl_specifier(url, calls[k].specifier).tag = "Some"}

\* what the classifier does whatever the literal text of the argument: an
\* expression is not analyzable; a string is; a template is by its first
\* part alone, and is left alone unless that part is a bare prefix ending
\* with a slash that resolves to something else
ClassifiedByFirstPart ==
  \A k \in DynamicCalls :
    LET c == calls[k]
    IN  /\ c.dep.arg = "Expr" => ~c.success /\ Untouched(c)
        /\ c.dep.arg = "String" => c.success
        /\ c.dep.arg = "Template" /\ c.dep.parts = <<>> =>
             c.success /\ Untouched(c)
        /\ c.dep.arg = "Template" /\ c.dep.parts # <<>>
           /\ c.dep.parts[1].expr => ~c.success /\ Untouched(c)
        /\ k \in PrefixCalls /\ (StartsWith(c.specifier, <<".", "/">>)
                                 \/ StartsWith(c.specifier, <<"..", "/">>)) =>
             c.success /\ Untouched(c)
        /\ k \in PrefixCalls /\ ~StartsWith(c.specifier, <<".", "/">>)
           /\ ~StartsWith(c.specifier, <<"..", "/">>)
           /\ ~EndsWith(c.specifier, <<"/">>) => ~c.success /\ Untouched(c)
        /\ k \in PrefixCalls \ RewrittenPrefixCalls
           /\ EndsWith(c.specifier, <<"/">>) => c.success /\ Untouched(c)

\* C7 as claimed: a template is classified by its first part alone, and a
\* bare prefix ending with a slash for which the chain yields a rewrite is
\* analyzable, with one edit replacing the prefix.
C7_PrefixAlwaysRewritten ==
  /\ ClassifiedByFirstPart
  /\ \A k \in RewrittenPrefixCalls :
       /\ calls[k].success
       /\ Pushed(calls[k])
       /\ EditOf(calls[k]).new_text
            = unfurl_specifier(url, calls[k].specifier).value
       /\ EditOf(calls[k]).range.end - EditOf(calls[k]).range.start
            = Len(calls[k].specifier)

\* the offsets at or after from where the text reads as needle
OccurrencesFrom(needle, from) ==
  {o \in from..(Len(text_str) - Len(needle)) :
     Slice(text_str, o, o + Len(needle)) = needle}

\* the least of a non-empty set of offsets
Least(offsets) == CHOOSE o \in offsets : \A other \in offsets : o <= other

\* C7 as amended: a template is classified by its first part alone; a bare
\* prefix ending with a slash for which the chain yields a rewrite is
\* analyzable, with one edit replacing the prefix, when the text of the
\* prefix occurs in the source at or after the start of the argument, the
\* edit being at the first such place; when it occurs nowhere there the
\* import is not analyzable and nothing is edited.
C7_PrefixRewrittenWhereFound ==
  /\ ClassifiedByFirstPart
  /\ \A k \in RewrittenPrefixCalls :
       LET c == calls[k]
           found == OccurrencesFrom(c.specifier, to_range(c.dep.range).start)
       IN  IF found = {} THEN ~c.success /\ Untouched(c)
           ELSE /\ c.success
                /\ Pushed(c)
                /\ EditOf(c).new_text = unfurl_specifier(url, c.specifier).value
                /\ EditOf(c).range.start = Least(found)
                /\ EditOf(c).range.end = Least(found) + Len(c.specifier)

\* C7 happens: a prefix that would be rewritten is nowhere in the text from
\* the argument on, and the import was found not analyzable.
C7_Witness ==
  \E k \in RewrittenPrefixCalls :
    /\ OccurrencesFrom(calls[k].specifier,
                       to_range(calls[k].dep.range).start) = {}
    /\ ~calls[k].success
    /\ pc = "done"
    /\ Len(diagnostics) = 1

\* C8: an edit for a dynamic import replaces the text of the specifier or
\* prefix where it occurs within the argument of that import; when it
\* does not occur there nothing is edited, and for a template the import is
\* not analyzable.
C8_EditWithinArgument ==
  \A k \in DynamicCalls :
    LET c == calls[k]
        within == {o \in OccurrencesFrom(c.specifier, OwnRange(c).start) :
                     o + Len(c.specifier) <= OwnRange(c).end}
    IN  /\ Pushed(c) =>
             /\ Inside(EditOf(c).range, OwnRange(c))
             /\ Slice(text_str, EditOf(c).range.start, EditOf(c).range.end)
                  = c.specifier
        /\ c.dep.arg \in {"String", "Template"} /\ within = {} => Untouched(c)
        /\ k \in RewrittenPrefixCalls /\ within = {} => ~c.success

\* the result of to_range starts one byte in exactly when the text starts
\* with a quote, and ends one byte in exactly when the text also ends
\* with that same quote
ClaimedRange(range, text, result) ==
  /\ result.start = range.start
       + (IF text # <<>> /\ IsQuote(text[1]) THEN 1 ELSE 0)
  /\ result.end = range.end
       - (IF text # <<>> /\ IsQuote(text[1]) /\ text[Len(text)] = text[1]
            THEN 1 ELSE 0)
  /\ result.start <= result.end
  /\ range.start <= result.start
  /\ result.end <= range.end

\* C9: to_range moves the start past a leading quote, moves the end before
\* a trailing quote that matches the leading one, and returns a range
\* with start <= end that lies within the range it was given.
C9_MatchingQuotesTrimmed ==
  pc = "done" /\ calls # <<>> /\ "result" \in DOMAIN calls[1] =>
    ClaimedRange(ByteRange(calls[1].dep.range),
                 Slice(text_str, ByteRange(calls[1].dep.range).start,
                       ByteRange(calls[1].dep.range).end),
                 calls[1].result)

RECURSIVE Shift(_, _)
\* by how much the patcher moves the byte at pos: the growth of every
\* edit that ends at or before it
Shift(changes, pos) ==
  IF changes = <<>> THEN 0
  ELSE (IF Head(changes).range.end <= pos
          THEN Len(Head(changes).new_text)
                 - (Head(changes).range.end - Head(changes).range.start)
          ELSE 0)
       + Shift(Tail(changes), pos)

\* C10: a dynamic import found not analyzable leaves the edits as they
\* were, and its bytes are in the text returned as they were in the source.
C10_UnanalyzableLeftAlone ==
  \A k \in DynamicCalls :
    ~calls[k].success =>
      /\ Untouched(calls[k])
      /\ pc = "done" =>
           /\ \A j \in 1..Len(text_changes) :
                ~Overlap(text_changes[j].range, OwnRange(calls[k]))
           /\ Slice(rewritten_text.value,
                    OwnRange(calls[k]).start
                      + Shift(text_changes, OwnRange(calls[k]).start),
                    OwnRange(calls[k]).end
                      + Shift(text_changes, OwnRange(calls[k]).start))
                = Slice(text_str, OwnRange(calls[k]).start,
                        OwnRange(calls[k]).end)

====
